---- MODULE Spec2Model ----
\* Model of combine_json_to_excel.py: the scoring engine, the record loader,
\* the column planner, the value normaliser and the table renderer, with the
\* run of merge_json_directory as a state machine.
\*
\* JSON values are tagged records:
\*   [t |-> "null"]                       None
\*   [t |-> "bool", b |-> BOOLEAN]        True / False
\*   [t |-> "str",  s |-> <<chars>>]      str, a sequence of characters
\*   [t |-> "num",  n |-> Int]            int (floats are outside the bounds)
\*   [t |-> "list", items |-> <<values>>] list
\*   [t |-> "obj",  f |-> <<pairs>>]      dict, a sequence of [k, v] pairs in
\*                                        insertion order with distinct keys
\* A character is a one-letter TLA+ string. The questionnaire's language is
\* Russian and TLA+ strings are ASCII, so the Cyrillic letters DE and A of the
\* affirmative token are the characters "cyr_d", "cyr_a" (lower case) and
\* "cyr_D", "cyr_A" (upper case); "cyr_n", "cyr_e", "cyr_t" are other
\* Cyrillic letters.
EXTENDS Integers, Sequences, FiniteSets, TLC

VARIABLES
    \* --- a call of compute_point_components / compute_points ---
    rec,            \* the raw record under construction (a dict)
    edits,          \* how many edits built rec
    called,         \* whether the scoring functions were applied to rec
    components,     \* compute_point_components(rec) of that call
    total,          \* compute_points(rec) of that call
    \* --- a second call, after one change of the record ---
    last_op,        \* the change made between the two calls
    prev_components, \* the components of the call before the change
    prev_total,     \* the total of the call before the change
    \* --- a call of is_yes ---
    yes_arg,        \* the answer value, or Missing for an absent key
    yes_done,       \* whether is_yes was applied
    yes_ret,        \* its result
    \* --- two calls of normalize_reporting_period ---
    period_arg,     \* the value under reporting_period
    period_calls,   \* how many times the function was applied
    period_ret,     \* the result of the last call
    period_prev,    \* the result of the call before the last
    \* --- a run of merge_json_directory ---
    input_dir,      \* the files of the input directory: [path, content]
    generate_pdfs,  \* the generate_pdfs argument
    pc,             \* the statement the run is at
    json_files,     \* load_json_files: the sorted paths
    records,        \* the loaded (path, record) pairs
    questions,      \* the column plan
    out_dir,        \* whether the output directory exists
    workbook,       \* the spreadsheet file at output_path
    pdfs,           \* the report files in the output directory
    pdf_done,       \* generate_score_reports: the records reported so far
    error,          \* the exception the run raised
    result          \* the value the run returned

scoreVars == <<rec, edits, called, components, total>>
prevVars == <<last_op, prev_components, prev_total>>
yesVars == <<yes_arg, yes_done, yes_ret>>
periodVars == <<period_arg, period_calls, period_ret, period_prev>>
runVars ==
    << input_dir, generate_pdfs, pc, json_files, records, questions, out_dir, workbook,
       pdfs, pdf_done, error, result >>
vars ==
    << rec, edits, called, components, total, last_op, prev_components, prev_total,
       yes_arg, yes_done, yes_ret,
       period_arg, period_calls, period_ret, period_prev,
       input_dir, generate_pdfs, pc, json_files, records, questions, out_dir, workbook,
       pdfs, pdf_done, error, result >>

\* ------------------------------------------------------------------ values

JNull == [t |-> "null"]
JBool(b) == [t |-> "bool", b |-> b]
JStr(s) == [t |-> "str", s |-> s]
JNum(n) == [t |-> "num", n |-> n]
JList(items) == [t |-> "list", items |-> items]
JObj(pairs) == [t |-> "obj", f |-> pairs]
KV(key, value) == [k |-> key, v |-> value]

\* dict.get(key): the value stored under key, None when the key is absent.
get(d, key) ==
    IF \E i \in 1..Len(d) : d[i].k = key
    THEN d[CHOOSE i \in 1..Len(d) : d[i].k = key].v
    ELSE JNull

\* d[key] = value: in place when the key exists, at the end otherwise.
dict_set(d, key, value) ==
    IF \E i \in 1..Len(d) : d[i].k = key
    THEN [i \in 1..Len(d) |-> IF d[i].k = key THEN KV(key, value) ELSE d[i]]
    ELSE Append(d, KV(key, value))

\* del d[key]
dict_del(d, key) == SelectSeq(d, LAMBDA p : p.k # key)

dict_keys(d) == {d[i].k : i \in 1..Len(d)}

\* bool(value): Python truthiness.
py_bool(value) ==
    CASE value.t = "null" -> FALSE
      [] value.t = "bool" -> value.b
      [] value.t = "str" -> Len(value.s) > 0
      [] value.t = "num" -> value.n # 0
      [] value.t = "list" -> Len(value.items) > 0
      [] value.t = "obj" -> Len(value.f) > 0

\* ----------------------------------------------------------------- strings

Whitespace == {" ", "\t"}

RECURSIVE lstrip(_)
lstrip(s) ==
    IF s # <<>> /\ Head(s) \in Whitespace THEN lstrip(Tail(s)) ELSE s

RECURSIVE rstrip(_)
rstrip(s) ==
    IF s # <<>> /\ s[Len(s)] \in Whitespace
    THEN rstrip(SubSeq(s, 1, Len(s) - 1))
    ELSE s

\* str.strip()
strip(s) == rstrip(lstrip(s))

lower_char(c) ==
    CASE c = "cyr_D" -> "cyr_d"
      [] c = "cyr_A" -> "cyr_a"
      [] c = "F" -> "f"
      [] c = "N" -> "n"
      [] c = "T" -> "t"
      [] OTHER -> c

\* str.lower()
lower(s) == [i \in 1..Len(s) |-> lower_char(s[i])]

\* The affirmative token of the questionnaire.
YES_TOKEN == <<"cyr_d", "cyr_a">>

\* ----------------------------------------------------------------- scoring

is_yes_unstripped(value) ==
    IF value.t = "bool" THEN value.b
    ELSE IF value.t = "str" THEN lower(value.s) = YES_TOKEN
    ELSE FALSE

is_yes(value) ==
    IF value.t = "bool" THEN value.b
    ELSE IF value.t = "str" THEN lower(strip(value.s)) = YES_TOKEN
    ELSE FALSE

row_has_content(row) ==
    IF row.t = "obj" THEN \E i \in 1..Len(row.f) : py_bool(row.f[i].v)
    ELSE IF row.t \in {"str", "num", "bool"} THEN py_bool(row)
    ELSE FALSE

RECURSIVE sum_filled(_)
sum_filled(items) ==
    IF items = <<>> THEN 0
    ELSE (IF row_has_content(Head(items)) THEN 1 ELSE 0) + sum_filled(Tail(items))

count_all_rows(value) ==
    IF value.t # "list" THEN 0 ELSE Len(value.items)

count_filled_rows(value) ==
    IF value.t # "list" THEN 0 ELSE sum_filled(value.items)

has_specialists(item) ==
    IF item.t # "obj" THEN FALSE
    ELSE LET specialists == get(item.f, "specialists") IN
         IF specialists.t = "str" /\ strip(specialists.s) # <<>> THEN TRUE
         ELSE IF specialists.t = "list"
                 /\ \E i \in 1..Len(specialists.items) : py_bool(specialists.items[i])
              THEN TRUE
              ELSE FALSE

RECURSIVE sum_specialists(_)
sum_specialists(items) ==
    IF items = <<>> THEN 0
    ELSE (IF has_specialists(Head(items)) THEN 1 ELSE 0) + sum_specialists(Tail(items))

count_rows_with_specialists(value) ==
    IF value.t # "list" THEN 0 ELSE sum_specialists(value.items)

base_condition_exactly(record) ==
    /\ is_yes(get(record, "held_minimum_three_curator_sessions_in_reporting_period"))
    /\ count_filled_rows(get(record, "curator_hours_details")) = 3
    /\ is_yes(get(record, "manages_group_chat"))
    /\ is_yes(get(record, "inform_group_about_events"))
    /\ is_yes(get(record, "participated_in_two_events_with_group"))
    /\ count_filled_rows(get(record, "joint_participation_events")) = 2
    /\ is_yes(get(record, "participated_in_two_curator_events"))
    /\ count_filled_rows(get(record, "curator_personal_events")) = 2

base_condition_without_19(record) ==
    /\ is_yes(get(record, "held_minimum_three_curator_sessions_in_reporting_period"))
    /\ count_filled_rows(get(record, "curator_hours_details")) >= 3
    /\ is_yes(get(record, "manages_group_chat"))
    /\ is_yes(get(record, "inform_group_about_events"))
    /\ is_yes(get(record, "participated_in_two_events_with_group"))
    /\ count_filled_rows(get(record, "joint_participation_events")) >= 2
    /\ is_yes(get(record, "participated_in_two_curator_events"))

base_condition_met(record) ==
    LET value_11 == get(record, "held_minimum_three_curator_sessions_in_reporting_period")
        value_12 == get(record, "curator_hours_details")
        value_13 == get(record, "manages_group_chat")
        value_14 == get(record, "inform_group_about_events")
        value_16 == get(record, "participated_in_two_events_with_group")
        value_17 == get(record, "joint_participation_events")
        value_18 == get(record, "participated_in_two_curator_events")
        value_19 == get(record, "curator_personal_events")
        count_12 == count_filled_rows(value_12)
        count_17 == count_filled_rows(value_17)
        count_19 == count_filled_rows(value_19)
    IN  /\ is_yes(value_11)
        /\ count_12 >= 3
        /\ is_yes(value_13)
        /\ is_yes(value_14)
        /\ is_yes(value_16)
        /\ count_17 >= 2
        /\ is_yes(value_18)
        /\ count_19 >= 2

Component(label, points) == [label |-> label, points |-> points]

compute_point_components(record) ==
    LET value_12 == get(record, "curator_hours_details")
        value_17 == get(record, "joint_participation_events")
        value_19 == get(record, "curator_personal_events")
        count_12 == count_filled_rows(value_12)
        count_17 == count_filled_rows(value_17)
        count_19 == count_filled_rows(value_19)
    IN << Component("base (11, 12, 13, 14, 16, 17, 18, 19)",
                    IF base_condition_met(record) THEN 30 ELSE 0),
          Component("personal programs (20)",
                    count_filled_rows(get(record, "personal_program_participation")) * 10),
          Component("scientific publication (22)",
                    count_filled_rows(get(record, "scientific_publications")) * 20),
          Component("media materials (23)",
                    count_filled_rows(get(record, "media_materials")) * 10),
          Component("mentoring (21)",
                    count_filled_rows(get(record, "mentor_support_events")) * 10),
          Component("student prizes (15)",
                    count_filled_rows(get(record, "achievements")) * 10),
          Component("qualification courses (24)",
                    count_filled_rows(get(record, "qualification_courses")) * 20),
          Component("invited specialists (12)",
                    count_rows_with_specialists(value_12) * 20),
          Component("curator hours over three (12)",
                    IF count_12 > 3 THEN (count_12 - 3) * 5 ELSE 0),
          Component("joint events over two (17)",
                    IF count_17 > 2 THEN (count_17 - 2) * 10 ELSE 0),
          Component("curator events over two (19)",
                    IF count_19 > 2 THEN (count_19 - 2) * 5 ELSE 0) >>

RECURSIVE sum_points(_)
sum_points(comps) ==
    IF comps = <<>> THEN 0 ELSE Head(comps).points + sum_points(Tail(comps))

compute_points_skipping_first(record) ==
    sum_points(Tail(compute_point_components(record)))

compute_points(record) == sum_points(compute_point_components(record))

\* ------------------------------------------------------------- formatting

\* The characters of the model in code-point order (what sorted() compares).
CODE_POINT_ORDER ==
    << "\t", " ", ",", "-", ".", "/", "0", "1", "2", "3", "4", "5", "6", "7", "8", "9",
       ":", "F", "N", "T", "_", "a", "b", "c", "e", "f", "j", "l", "n", "o", "r", "s",
       "t", "u", "x", "cyr_A", "cyr_B", "cyr_D", "cyr_I", "cyr_O", "cyr_F",
       "cyr_a", "cyr_d", "cyr_e", "cyr_z", "cyr_n", "cyr_t" >>

code_point(c) == CHOOSE i \in 1..Len(CODE_POINT_ORDER) : CODE_POINT_ORDER[i] = c

\* a < b for two strings
RECURSIVE str_lt(_, _)
str_lt(a, b) ==
    IF b = <<>> THEN FALSE
    ELSE IF a = <<>> THEN TRUE
    ELSE IF Head(a) = Head(b) THEN str_lt(Tail(a), Tail(b))
    ELSE code_point(Head(a)) < code_point(Head(b))

RECURSIVE insert_sorted(_, _)
insert_sorted(x, sorted_items) ==
    IF sorted_items = <<>> THEN <<x>>
    ELSE IF str_lt(Head(sorted_items), x)
         THEN <<Head(sorted_items)>> \o insert_sorted(x, Tail(sorted_items))
         ELSE <<x>> \o sorted_items

\* sorted(strings)
RECURSIVE sorted_strs(_)
sorted_strs(items) ==
    IF items = <<>> THEN <<>> ELSE insert_sorted(Head(items), sorted_strs(Tail(items)))

DIGITS == <<"0", "1", "2", "3", "4", "5", "6", "7", "8", "9">>

RECURSIVE str_nat(_)
str_nat(n) ==
    IF n < 10 THEN <<DIGITS[n + 1]>> ELSE str_nat(n \div 10) \o <<DIGITS[(n % 10) + 1]>>

\* str(value) of a scalar
py_str(value) ==
    CASE value.t = "str" -> value.s
      [] value.t = "num" -> IF value.n < 0 THEN <<"-">> \o str_nat(-value.n) ELSE str_nat(value.n)
      [] value.t = "bool" -> IF value.b THEN <<"T", "r", "u", "e">> ELSE <<"F", "a", "l", "s", "e">>
      [] value.t = "null" -> <<"N", "o", "n", "e">>

\* sep.join(strings)
RECURSIVE join(_, _)
join(sep, strs) ==
    IF strs = <<>> THEN <<>>
    ELSE IF Len(strs) = 1 THEN Head(strs)
    ELSE Head(strs) \o sep \o join(sep, Tail(strs))

format_scalar_list_unsorted(items) ==
    join(<<",", " ">>, [i \in 1..Len(items) |-> py_str(items[i])])

format_scalar_list(items) ==
    LET sorted_items == sorted_strs([i \in 1..Len(items) |-> py_str(items[i])])
    IN  join(<<",", " ">>, sorted_items)

\* isinstance(value, list) and all(not isinstance(item, (dict, list)) for item in value)
is_scalar_list(value) ==
    /\ value.t = "list"
    /\ \A i \in 1..Len(value.items) : value.items[i].t \notin {"obj", "list"}

\* Whether sep occurs in s at position i.
occurs_at(s, sep, i) ==
    /\ i + Len(sep) - 1 <= Len(s)
    /\ SubSeq(s, i, i + Len(sep) - 1) = sep

partition_at_last(s, sep) ==
    IF \E i \in 1..Len(s) : occurs_at(s, sep, i)
    THEN LET i == CHOOSE j \in 1..Len(s) :
                      occurs_at(s, sep, j) /\ \A h \in (j + 1)..Len(s) : ~occurs_at(s, sep, h)
         IN  <<SubSeq(s, 1, i - 1), sep, SubSeq(s, i + Len(sep), Len(s))>>
    ELSE <<s, <<>>, <<>>>>

\* str.partition(sep): (before, sep, after) at the first occurrence, (s, "", "") without one.
partition(s, sep) ==
    IF \E i \in 1..Len(s) : occurs_at(s, sep, i)
    THEN LET i == CHOOSE j \in 1..Len(s) :
                      occurs_at(s, sep, j) /\ \A h \in 1..(j - 1) : ~occurs_at(s, sep, h)
         IN  <<SubSeq(s, 1, i - 1), sep, SubSeq(s, i + Len(sep), Len(s))>>
    ELSE <<s, <<>>, <<>>>>

normalize_reporting_period_keeping_legacy(value) ==
    LET explicit_start == IF value.t = "obj" THEN get(value.f, "date_start") ELSE JNull
        explicit_end == IF value.t = "obj" THEN get(value.f, "date_end") ELSE JNull
        range_value == IF value.t = "obj" THEN get(value.f, "range") ELSE JNull
        parts == IF range_value.t = "str"
                 THEN partition(range_value.s, <<" ", "-", " ">>)
                 ELSE <<<<>>, <<>>, <<>>>>
        use_range == /\ value.t = "obj"
                     /\ explicit_start = JNull /\ explicit_end = JNull
                     /\ range_value.t = "str"
                     /\ parts[1] # <<>> /\ parts[3] # <<>>
        legacy == IF value.t = "obj" THEN value.f ELSE <<>>
    IN  JObj(dict_set(dict_set(legacy, "date_start",
                               IF use_range THEN JStr(parts[1]) ELSE explicit_start),
                      "date_end", IF use_range THEN JStr(parts[3]) ELSE explicit_end))

normalize_reporting_period(value) ==
    LET explicit_start == IF value.t = "obj" THEN get(value.f, "date_start") ELSE JNull
        explicit_end == IF value.t = "obj" THEN get(value.f, "date_end") ELSE JNull
        range_value == IF value.t = "obj" THEN get(value.f, "range") ELSE JNull
        parts == IF range_value.t = "str"
                 THEN partition(range_value.s, <<" ", "-", " ">>)
                 ELSE <<<<>>, <<>>, <<>>>>
        use_range == /\ value.t = "obj"
                     /\ explicit_start = JNull /\ explicit_end = JNull
                     /\ range_value.t = "str"
                     /\ parts[1] # <<>> /\ parts[3] # <<>>
    IN  JObj(<< KV("date_start", IF use_range THEN JStr(parts[1]) ELSE explicit_start),
                KV("date_end", IF use_range THEN JStr(parts[3]) ELSE explicit_end) >>)

normalize_record_values(record) ==
    [i \in 1..Len(record) |->
        KV(record[i].k,
           IF record[i].k = "reporting_period" THEN normalize_reporting_period(record[i].v)
           ELSE IF is_scalar_list(record[i].v)
                THEN JStr(format_scalar_list(record[i].v.items))
                ELSE record[i].v)]

stringify_value(value) ==
    IF value.t = "null" THEN <<>>
    ELSE IF is_scalar_list(value) THEN format_scalar_list(value.items)
    ELSE py_str(value)

\* The characters re.sub replaces by "_".
ILLEGAL_FILENAME_CHARS == {"\\", "/", ":", "*", "?", "\"", "<", ">", "|"}

\* The name used when the sanitized name is empty.
NO_NAME == <<"cyr_B", "cyr_e", "cyr_z", "_", "cyr_F", "cyr_I", "cyr_O">>

sanitize_filename(value) ==
    LET replaced == [i \in 1..Len(value) |->
                        IF value[i] \in ILLEGAL_FILENAME_CHARS THEN "_" ELSE value[i]]
        safe_value == strip(replaced)
    IN  IF safe_value # <<>> THEN safe_value ELSE NO_NAME

extract_full_name(record, fallback) ==
    LET full_name == stringify_value(get(record, "full_name"))
    IN  IF full_name # <<>> THEN full_name ELSE fallback

\* ------------------------------------------------------------ column plan

Question(key, label, subfields, always) ==
    [key |-> key, label |-> label, subfields |-> subfields, always |-> always]

DATES == <<"date_start", "date_end">>

\* The registry; a label is the number of the question on the form.
QUESTION_ORDER ==
    << Question("reporting_period", "period", DATES, FALSE),
       Question("score", "points", <<>>, TRUE),
       Question("full_name", "1", <<>>, FALSE),
       Question("job_positions", "2", <<>>, FALSE),
       Question("department", "3", <<>>, FALSE),
       Question("contact_phone_connected_to_telegram", "4", <<>>, FALSE),
       Question("telegram_username", "5", <<>>, FALSE),
       Question("email", "6", <<>>, FALSE),
       Question("curated_group_numbers", "7", <<>>, FALSE),
       Question("curator_primary_building", "8", <<>>, FALSE),
       Question("curator_primary_room", "9", <<>>, FALSE),
       Question("institute_or_faculty", "10", <<>>, FALSE),
       Question("held_minimum_three_curator_sessions_in_reporting_period", "11", <<>>, FALSE),
       Question("curator_hours_details", "12",
                <<"groups", "date_start", "date_end", "topic", "directions", "specialists">>,
                FALSE),
       Question("manages_group_chat", "13", <<>>, FALSE),
       Question("inform_group_about_events", "14", <<>>, FALSE),
       Question("achievements", "15",
                <<"date_start", "date_end", "event", "group", "student", "result">>, FALSE),
       Question("participated_in_two_events_with_group", "16", <<>>, FALSE),
       Question("joint_participation_events", "17",
                <<"groups", "date_start", "date_end", "event">>, FALSE),
       Question("participated_in_two_curator_events", "18", <<>>, FALSE),
       Question("curator_personal_events", "19", <<"date_start", "date_end", "event">>, FALSE),
       Question("personal_program_participation", "20",
                <<"date_start", "date_end", "event">>, FALSE),
       Question("mentor_support_events", "21",
                <<"date_start", "date_end", "event", "group", "student", "result">>, FALSE),
       Question("scientific_publications", "22", <<"description", "link">>, FALSE),
       Question("media_materials", "23", <<"link">>, FALSE),
       Question("qualification_courses", "24", <<"date_start", "date_end", "event">>, FALSE) >>

\* QuestionColumn(key, label, subfields); no subfields is the empty sequence.
QuestionColumn(key, label, subfields) ==
    [key |-> key, label |-> label, subfields |-> subfields]

present_keys(loaded) == UNION {dict_keys(loaded[i].record) : i \in 1..Len(loaded)}

determine_columns_present_only(loaded) ==
    LET kept == SelectSeq(QUESTION_ORDER, LAMBDA q : q.key \in present_keys(loaded))
    IN  [i \in 1..Len(kept) |-> QuestionColumn(kept[i].key, kept[i].label, kept[i].subfields)]

determine_columns(loaded) ==
    LET kept == SelectSeq(QUESTION_ORDER,
                          LAMBDA q : q.always \/ q.key \in present_keys(loaded))
    IN  [i \in 1..Len(kept) |-> QuestionColumn(kept[i].key, kept[i].label, kept[i].subfields)]

\* One flat column: (key, subkey), the subkey "" standing for None.
FlatColumn(key, subkey) == [key |-> key, subkey |-> subkey]

RECURSIVE flat_columns(_)
flat_columns(plan) ==
    IF plan = <<>> THEN <<>>
    ELSE LET question == Head(plan) IN
         (IF question.subfields # <<>>
          THEN [i \in 1..Len(question.subfields) |->
                   FlatColumn(question.key, question.subfields[i])]
          ELSE <<FlatColumn(question.key, "")>>)
         \o flat_columns(Tail(plan))

\* -------------------------------------------------------------- rendering

\* max((len(value) if isinstance(value, list) else 1 for value in record.values()), default=1)
block_height(record) ==
    LET sizes == {IF record[i].v.t = "list" THEN Len(record[i].v.items) ELSE 1 :
                     i \in 1..Len(record)}
    IN  IF sizes = {} THEN 1 ELSE CHOOSE m \in sizes : \A n \in sizes : n <= m

\* file_path.name
path_name(path) == path.stem \o <<".">> \o path.suffix

\* json.dumps of a string: the quotes, and the escapes of the model's characters.
json_escape(c) ==
    CASE c = "\"" -> <<"\\", "\"">>
      [] c = "\\" -> <<"\\", "\\">>
      [] c = "\t" -> <<"\\", "t">>
      [] OTHER -> <<c>>

RECURSIVE json_string(_)
json_string(s) ==
    IF s = <<>> THEN <<>> ELSE json_escape(Head(s)) \o json_string(Tail(s))

\* json.dumps(value, ensure_ascii=False); a key is written as one token.
RECURSIVE json_dumps(_)
json_dumps(value) ==
    CASE value.t = "null" -> <<"n", "u", "l", "l">>
      [] value.t = "bool" ->
            IF value.b THEN <<"t", "r", "u", "e">> ELSE <<"f", "a", "l", "s", "e">>
      [] value.t = "num" -> py_str(value)
      [] value.t = "str" -> <<"\"">> \o json_string(value.s) \o <<"\"">>
      [] value.t = "list" ->
            <<"[">> \o join(<<",", " ">>,
                            [i \in 1..Len(value.items) |-> json_dumps(value.items[i])])
                    \o <<"]">>
      [] value.t = "obj" ->
            <<"{">> \o join(<<",", " ">>,
                            [i \in 1..Len(value.f) |->
                                <<"\"", value.f[i].k, "\"", ":", " ">>
                                \o json_dumps(value.f[i].v)])
                    \o <<"}">>

normalize_cell_value(value) ==
    IF value.t \in {"null", "str", "num", "bool"} THEN value
    ELSE IF is_scalar_list(value) THEN JStr(format_scalar_list(value.items))
    ELSE JStr(json_dumps(value))

\* The cell value "".
BLANK == JStr(<<>>)

\* record = normalize_record_values(raw_record); record["score"] = compute_points(raw_record)
normalized_record(raw_record) ==
    dict_set(normalize_record_values(raw_record), "score", JNum(compute_points(raw_record)))

cell_value_on_every_row(record, row_offset, column) ==
    LET value == get(record, column.key)
        subkey == column.subkey
    IN  IF value.t = "list"
        THEN IF row_offset < Len(value.items)
             THEN LET item == value.items[row_offset + 1]
                  IN  IF subkey # "" /\ item.t = "obj"
                      THEN normalize_cell_value(get(item.f, subkey))
                      ELSE IF subkey = "" THEN normalize_cell_value(item)
                      ELSE BLANK
             ELSE BLANK
        ELSE IF value.t = "obj"
        THEN IF subkey # "" THEN normalize_cell_value(get(value.f, subkey))
             ELSE normalize_cell_value(value)
        ELSE IF subkey # "" THEN BLANK
             ELSE normalize_cell_value(value)

\* The value of one cell: the row at row_offset (from 0) of the record's
\* block, under the flat column (question_key, subkey).
cell_value(record, row_offset, column) ==
    LET value == get(record, column.key)
        subkey == column.subkey
    IN  IF value.t = "list"
        THEN IF row_offset < Len(value.items)
             THEN LET item == value.items[row_offset + 1]
                  IN  IF subkey # "" /\ item.t = "obj"
                      THEN normalize_cell_value(get(item.f, subkey))
                      ELSE IF subkey = "" THEN normalize_cell_value(item)
                      ELSE BLANK
             ELSE BLANK
        ELSE IF value.t = "obj"
        THEN IF subkey # ""
             THEN IF row_offset = 0 THEN normalize_cell_value(get(value.f, subkey)) ELSE BLANK
             ELSE IF row_offset = 0 THEN normalize_cell_value(value)
             ELSE BLANK
        ELSE IF subkey # "" THEN BLANK
             ELSE IF row_offset = 0 THEN normalize_cell_value(value) ELSE BLANK

\* One body row: the source cell, the cells under the flat columns and the
\* sheet columns (the source column is column 1) whose cell has the fill.
Row(source, values, fill) == [source |-> source, values |-> values, fill |-> fill]

render_block_of_raw(file_path, raw_record, plan) ==
    LET columns == flat_columns(plan)
    IN  [row_index \in 1..block_height(raw_record) |->
            Row(IF row_index = 1 THEN path_name(file_path) ELSE <<>>,
                [c \in 1..Len(columns) |-> cell_value(raw_record, row_index - 1, columns[c])],
                {})]

\* The rows ws.append adds for one record.
render_block(file_path, raw_record, plan) ==
    LET record == normalized_record(raw_record)
        columns == flat_columns(plan)
    IN  [row_index \in 1..block_height(record) |->
            Row(IF row_index = 1 THEN path_name(file_path) ELSE <<>>,
                [c \in 1..Len(columns) |-> cell_value(record, row_index - 1, columns[c])],
                {})]

\* span = len(question.subfields) if question.subfields else 1
span(question) == IF question.subfields # <<>> THEN Len(question.subfields) ELSE 1

\* column_start when the highlighting loop reaches question q of the plan.
RECURSIVE column_start(_, _)
column_start(plan, q) == IF q = 1 THEN 2 ELSE column_start(plan, q - 1) + span(plan[q - 1])

highlight_whole_block(rows, record, plan) ==
    LET start_row == Len(rows) - block_height(record) + 1
        filled(row_index) ==
            UNION { {column_start(plan, q) + offset : offset \in 0..(span(plan[q]) - 1)} :
                    q \in { h \in 1..Len(plan) :
                              /\ get(record, plan[h].key).t = "list"
                              /\ get(record, plan[h].key).items # <<>>
                              /\ row_index \in start_row..Len(rows) } }
    IN  [i \in 1..Len(rows) |-> Row(rows[i].source, rows[i].values,
                                     rows[i].fill \cup filled(i))]

\* The sheet after the fills of one record's block, the last of the body:
\* start_row = ws.max_row - block_height + 1, rows counted from the first body row.
highlight(rows, record, plan) ==
    LET start_row == Len(rows) - block_height(record) + 1
        filled(row_index) ==
            UNION { {column_start(plan, q) + offset : offset \in 0..(span(plan[q]) - 1)} :
                    q \in { h \in 1..Len(plan) :
                              /\ get(record, plan[h].key).t = "list"
                              /\ get(record, plan[h].key).items # <<>>
                              /\ row_index \in
                                    start_row..(start_row + Len(get(record, plan[h].key).items) - 1) } }
    IN  [i \in 1..Len(rows) |-> Row(rows[i].source, rows[i].values,
                                     rows[i].fill \cup filled(i))]

\* The body after the loop over records: each block appended, then highlighted.
RECURSIVE render_blocks(_, _)
render_blocks(loaded, plan) ==
    IF loaded = <<>> THEN <<>>
    ELSE LET last == loaded[Len(loaded)]
             before == render_blocks(SubSeq(loaded, 1, Len(loaded) - 1), plan)
         IN  highlight(before \o render_block(last.path, last.record, plan),
                       normalized_record(last.record), plan)

\* The sheet write_workbook saves: the flat columns under the two header rows
\* and the body rows.
write_workbook(loaded, plan) ==
    [exists |-> TRUE, flat_columns |-> flat_columns(plan), rows |-> render_blocks(loaded, plan)]

NO_FILE == [exists |-> FALSE, flat_columns |-> <<>>, rows |-> <<>>]

\* ------------------------------------------------------------------ loading

Path(stem, suffix) == [stem |-> stem, suffix |-> suffix]

JSON_SUFFIX == <<"j", "s", "o", "n">>

glob_all(directory) == {file.path : file \in directory}

\* input_dir.glob("*.json")
glob_json(directory) == {file.path : file \in {f \in directory : f.path.suffix = JSON_SUFFIX}}

RECURSIVE sorted_paths_descending(_)
sorted_paths_descending(paths) ==
    IF paths = {} THEN <<>>
    ELSE LET first == CHOOSE p \in paths :
                          \A q \in paths \ {p} : str_lt(path_name(q), path_name(p))
         IN  <<first>> \o sorted_paths_descending(paths \ {first})

\* sorted(paths): by name, smallest first.
RECURSIVE sorted_paths(_)
sorted_paths(paths) ==
    IF paths = {} THEN <<>>
    ELSE LET first == CHOOSE p \in paths :
                          \A q \in paths \ {p} : str_lt(path_name(p), path_name(q))
         IN  <<first>> \o sorted_paths(paths \ {first})

\* json.load of the file at path; UNPARSABLE when the text is not JSON.
UNPARSABLE == [t |-> "unparsable"]

file_content(directory, path) == (CHOOSE file \in directory : file.path = path).content

\* isinstance(data, dict)
is_dict(data) == data.t = "obj"

NO_ERROR == [kind |-> "none", path |-> <<>>]

Raise(kind, path) == [kind |-> kind, path |-> path]

\* The name of a record's report file, between the fixed prefix and ".pdf".
pdf_name(file_path, raw_record) ==
    sanitize_filename(extract_full_name(raw_record, file_path.stem))

\* The report generate_score_pdf writes for one record.
score_report(file_path, raw_record) ==
    [ name |-> pdf_name(file_path, raw_record),
      full_name |-> extract_full_name(raw_record, file_path.stem),
      components |-> compute_point_components(raw_record),
      total |-> sum_points(compute_point_components(raw_record)) ]

\* The directory after a file is written: a file of the same name is replaced.
write_file(files, file) == {f \in files : f.name # file.name} \cup {file}

\* ------------------------------------------------ inputs of the scoring run

MaxEdits == 1
MaxStrLen == 3

YES_KEYS ==
    { "held_minimum_three_curator_sessions_in_reporting_period",
      "manages_group_chat",
      "inform_group_about_events",
      "participated_in_two_events_with_group",
      "participated_in_two_curator_events" }

LIST_KEYS ==
    { "curator_hours_details", "achievements", "joint_participation_events",
      "curator_personal_events", "personal_program_participation",
      "mentor_support_events", "scientific_publications", "media_materials",
      "qualification_courses" }

\* Keys compute_point_components never reads.
UNREAD_KEYS == {"full_name", "score", "reporting_period"}

S_t == JStr(<<"t">>)
S_empty == JStr(<<>>)
S_Da == JStr(<<"cyr_D", "cyr_a">>)
S_net == JStr(<<"cyr_n", "cyr_e", "cyr_t">>)

RowEmpty == JObj(<<>>)
RowTopic == JObj(<<KV("topic", S_t)>>)
RowFalsy == JObj(<<KV("topic", S_empty), KV("specialists", JList(<<>>)), KV("groups", JNum(0))>>)
RowSpecialist == JObj(<<KV("topic", S_t), KV("specialists", JStr(<<"n">>))>>)
RowBlankSpecialist == JObj(<<KV("specialists", JStr(<<" ">>))>>)
RowSpecialistList == JObj(<<KV("specialists", JList(<<S_empty, JStr(<<"n">>)>>))>>)
RowEmptySpecialistList == JObj(<<KV("specialists", JList(<<S_empty, JNull>>))>>)
RowNumSpecialist == JObj(<<KV("specialists", JNum(1))>>)

\* Items a list answer may hold.
ROWS ==
    { RowEmpty, RowTopic, RowFalsy, RowSpecialist, RowBlankSpecialist,
      RowSpecialistList, RowEmptySpecialistList, RowNumSpecialist,
      S_t, S_empty, JNum(0), JNum(1), JBool(TRUE), JBool(FALSE), JNull,
      JList(<<S_t>>) }

\* Values a yes/no answer may hold.
ANSWERS ==
    { JBool(TRUE), JBool(FALSE), S_Da, JStr(<<" ", "cyr_d", "cyr_A", "\t">>), S_net,
      S_empty, JNum(1), JNull, JList(<<S_Da>>), JObj(<<KV("answer", S_Da)>>) }

\* Values that are not lists, stored under a list-scored key.
NON_LISTS == {S_t, RowTopic, JNum(3), JBool(TRUE)}

\* Values stored under a key the scoring never reads.
UNREAD_VALUES == {S_Da, JList(<<RowTopic, RowSpecialist, RowTopic, RowTopic>>), JNum(100)}

\* The record of the specification's example: all five answers yes, three
\* filled curator-hour rows of which one has specialists, two joint events,
\* two curator events, nothing else.
ExampleRecord ==
    << KV("held_minimum_three_curator_sessions_in_reporting_period", S_Da),
       KV("curator_hours_details", JList(<<RowTopic, RowSpecialist, RowTopic>>)),
       KV("manages_group_chat", S_Da),
       KV("inform_group_about_events", S_Da),
       KV("participated_in_two_events_with_group", S_Da),
       KV("joint_participation_events", JList(<<RowTopic, RowTopic>>)),
       KV("participated_in_two_curator_events", S_Da),
       KV("curator_personal_events", JList(<<RowTopic, RowTopic>>)) >>

\* A record above every threshold, with every list-scored question answered.
RichRecord ==
    << KV("full_name", S_t),
       KV("curator_personal_events", JList(<<RowTopic, RowTopic, S_t, RowEmpty>>)),
       KV("held_minimum_three_curator_sessions_in_reporting_period", JBool(TRUE)),
       KV("curator_hours_details",
          JList(<<RowSpecialist, RowFalsy, RowTopic, RowSpecialistList, RowTopic>>)),
       KV("manages_group_chat", JStr(<<" ", "cyr_d", "cyr_A", "\t">>)),
       KV("inform_group_about_events", S_Da),
       KV("achievements", JList(<<RowTopic>>)),
       KV("participated_in_two_events_with_group", S_Da),
       KV("joint_participation_events", JList(<<RowTopic, RowTopic, RowTopic>>)),
       KV("participated_in_two_curator_events", S_Da),
       KV("personal_program_participation", JList(<<RowTopic, RowEmpty>>)),
       KV("mentor_support_events", JList(<<RowTopic>>)),
       KV("scientific_publications", JList(<<RowTopic, RowTopic>>)),
       KV("media_materials", JList(<<S_t>>)),
       KV("qualification_courses", JList(<<RowTopic>>)) >>

BASE_RECORDS == {<<>>, ExampleRecord, RichRecord}

\* list.append(row) on the answer under key; a new one-row list when the key
\* holds no list.
append_row(record, key, row) ==
    LET value == get(record, key) IN
    dict_set(record, key,
             IF value.t = "list" THEN JList(Append(value.items, row)) ELSE JList(<<row>>))

\* The record with the pairs at positions i and i + 1 exchanged.
swap_keys(record, i) ==
    [j \in 1..Len(record) |->
        IF j = i THEN record[i + 1] ELSE IF j = i + 1 THEN record[i] ELSE record[j]]

Missing == [t |-> "missing"]

Strings(n) ==
    UNION {[1..m -> {" ", "\t", "cyr_d", "cyr_a", "cyr_D", "cyr_A", "cyr_n"}] : m \in 0..n}

\* Arguments of is_yes: every short string, the other JSON shapes, a missing key.
YES_INPUTS ==
    {JStr(s) : s \in Strings(MaxStrLen)}
    \cup {JNull, JBool(TRUE), JBool(FALSE), JNum(0), JNum(1), JNum(-1),
          JList(<<>>), JList(<<S_Da>>), JList(<<JBool(TRUE)>>),
          JObj(<<>>), JObj(<<KV("da", JBool(TRUE))>>), Missing}

IdleScore ==
    rec = <<>> /\ edits = 0 /\ called = FALSE /\ components = <<>> /\ total = 0

IdlePrev == last_op = "none" /\ prev_components = <<>> /\ prev_total = 0

IdleYes == yes_arg = JNull /\ yes_done = FALSE /\ yes_ret = FALSE

IdlePeriod ==
    period_arg = JNull /\ period_calls = 0 /\ period_ret = JNull /\ period_prev = JNull

IdleRun ==
    /\ input_dir = {}
    /\ generate_pdfs = FALSE
    /\ pc = "idle"
    /\ json_files = <<>>
    /\ records = <<>>
    /\ questions = <<>>
    /\ out_dir = FALSE
    /\ workbook = NO_FILE
    /\ pdfs = {}
    /\ pdf_done = 0
    /\ error = NO_ERROR
    /\ result = 0

\* ------------------------------------------------ the scoring specification

Edit(record) ==
    /\ edits < MaxEdits
    /\ rec' = record
    /\ edits' = edits + 1
    /\ called' = FALSE
    /\ components' = <<>>
    /\ total' = 0
    /\ UNCHANGED <<prevVars, yesVars, runVars, periodVars>>

PutAnswer == \E key \in YES_KEYS, value \in ANSWERS : Edit(dict_set(rec, key, value))

AppendRow == \E key \in LIST_KEYS, row \in ROWS : Edit(append_row(rec, key, row))

PutNonList == \E key \in LIST_KEYS, value \in NON_LISTS : Edit(dict_set(rec, key, value))

PutUnread == \E key \in UNREAD_KEYS, value \in UNREAD_VALUES : Edit(dict_set(rec, key, value))

DeleteKey == \E key \in dict_keys(rec) : Edit(dict_del(rec, key))

\* components = compute_point_components(raw_record); total = compute_points(raw_record)
Score ==
    /\ ~called
    /\ called' = TRUE
    /\ components' = compute_point_components(rec)
    /\ total' = compute_points(rec)
    /\ UNCHANGED <<rec, edits, prevVars, yesVars, runVars, periodVars>>

InitScore ==
    /\ rec \in BASE_RECORDS
    /\ edits = 0
    /\ called = FALSE
    /\ components = <<>>
    /\ total = 0
    /\ IdlePrev
    /\ IdleYes
    /\ IdlePeriod
    /\ IdleRun

NextScore == PutAnswer \/ AppendRow \/ PutNonList \/ PutUnread \/ DeleteKey \/ Score

SpecScore == InitScore /\ [][NextScore]_vars

\* ---------------------------------------------- inputs of a run of the tool

MaxFiles == 3

\* The stems of the files an input directory may hold.
FILE_STEMS == << <<"b">>, <<"a">>, <<"a", "b">>, <<"c">>, <<"a", "-">> >>

TXT_SUFFIX == <<"t", "x", "t">>

\* A respondent with a name, three curator hours and one answer.
RecordA ==
    << KV("full_name", JStr(<<"a", "/", "b">>)),
       KV("curator_hours_details", JList(<<RowTopic, RowSpecialist, RowTopic>>)),
       KV("held_minimum_three_curator_sessions_in_reporting_period", S_Da) >>

\* A respondent with a legacy period, a list of scalars, a list under a key
\* the registry does not know, a score of its own and a name that sanitizes
\* to the name of RecordA.
RecordB ==
    << KV("reporting_period", JObj(<<KV("range", JStr(<<"1", " ", "-", " ", "2">>))>>)),
       KV("job_positions", JList(<<JStr(<<"b">>), JStr(<<"a">>), JNum(1)>>)),
       KV("unknown_key", JList(<<RowTopic, RowEmpty>>)),
       KV("score", JList(<<RowTopic, RowTopic, RowTopic, RowTopic>>)),
       KV("full_name", JStr(<<"a", ":", "b">>)) >>

\* A respondent without a name, with a mixed list, an empty list, a list of
\* scalars under a question with sub-fields, under the period and under a key
\* the registry does not know.
RecordD ==
    << KV("media_materials", JList(<<RowTopic, S_t>>)),
       KV("achievements", JList(<<>>)),
       KV("full_name", JNull),
       KV("scientific_publications", JList(<<S_t, JNum(10), JNum(9), JBool(TRUE), JNull>>)),
       KV("reporting_period", JList(<<S_t>>)),
       KV("notes", JList(<<S_t, S_t>>)) >>

\* A respondent whose answers have every shape a cell is resolved from: a
\* list with an item holding a list, an empty item and a scalar item under a
\* question with sub-fields, an object and a scalar under such a question, a
\* list of objects and an object under a question without sub-fields, a
\* period that is not an object.
RecordE ==
    << KV("curator_hours_details", JList(<<RowSpecialistList, RowEmpty, S_t>>)),
       KV("achievements", JObj(<<KV("event", S_t), KV("result", JList(<<RowTopic>>))>>)),
       KV("department", JList(<<RowTopic, JStr(<<"\t", "\"">>)>>)),
       KV("email", JObj(<<KV("a", JBool(TRUE)), KV("b", JNull)>>)),
       KV("joint_participation_events", S_t),
       KV("telegram_username", S_Da),
       KV("reporting_period", S_t) >>

\* What a .json file may hold: five objects, two other JSON values, no JSON.
FILE_CONTENTS ==
    { JObj(RecordA), JObj(RecordB), JObj(<<>>), JObj(RecordD), JObj(RecordE),
      JList(<<RowTopic>>), JNum(1), UNPARSABLE }

\* What a stem may be in the directory: absent, a text file, a .json file.
FILE_CHOICES ==
    {[suffix |-> <<>>, content |-> UNPARSABLE], [suffix |-> TXT_SUFFIX, content |-> UNPARSABLE]}
    \cup {[suffix |-> JSON_SUFFIX, content |-> c] : c \in FILE_CONTENTS}

\* ------------------------------------------------ the run of the tool

Fail(kind, path) ==
    /\ pc' = "failed"
    /\ error' = Raise(kind, path)

MkdirThenGlob ==
    /\ pc = "start"
    /\ out_dir' = TRUE
    /\ json_files' = sorted_paths(glob_json(input_dir))
    /\ IF json_files' = <<>>
       THEN Fail("FileNotFoundError", <<>>)
       ELSE pc' = "load" /\ UNCHANGED error
    /\ UNCHANGED <<input_dir, generate_pdfs, records, questions, workbook, pdfs,
                   pdf_done, result>>
    /\ UNCHANGED <<scoreVars, prevVars, yesVars, periodVars>>

\* load_json_files: json_files = sorted(input_dir.glob("*.json")), and the
\* error when there are none.
Glob ==
    /\ pc = "start"
    /\ json_files' = sorted_paths(glob_json(input_dir))
    /\ IF json_files' = <<>>
       THEN Fail("FileNotFoundError", <<>>)
       ELSE pc' = "load" /\ UNCHANGED error
    /\ UNCHANGED <<input_dir, generate_pdfs, records, questions, out_dir, workbook, pdfs,
                   pdf_done, result>>
    /\ UNCHANGED <<scoreVars, prevVars, yesVars, periodVars>>

\* load_json_files: one turn of the loop over json_files.
LoadFile ==
    /\ pc = "load"
    /\ LET path == json_files[Len(records) + 1]
           data == file_content(input_dir, path)
       IN  IF data = UNPARSABLE
           THEN Fail("JSONDecodeError", path) /\ UNCHANGED records
           ELSE IF ~is_dict(data)
           THEN Fail("ValueError", path) /\ UNCHANGED records
           ELSE /\ records' = Append(records, [path |-> path, record |-> data.f])
                /\ pc' = IF Len(records') = Len(json_files) THEN "plan" ELSE "load"
                /\ UNCHANGED error
    /\ UNCHANGED <<input_dir, generate_pdfs, json_files, questions, out_dir, workbook, pdfs,
                   pdf_done, result>>
    /\ UNCHANGED <<scoreVars, prevVars, yesVars, periodVars>>

\* questions = determine_columns(records)
DetermineColumns ==
    /\ pc = "plan"
    /\ questions' = determine_columns(records)
    /\ pc' = "mkdir"
    /\ UNCHANGED <<input_dir, generate_pdfs, json_files, records, out_dir, workbook, pdfs,
                   pdf_done, error, result>>
    /\ UNCHANGED <<scoreVars, prevVars, yesVars, periodVars>>

\* output_path.parent.mkdir(parents=True, exist_ok=True)
Mkdir ==
    /\ pc = "mkdir"
    /\ out_dir' = TRUE
    /\ pc' = "write"
    /\ UNCHANGED <<input_dir, generate_pdfs, json_files, records, questions, workbook, pdfs,
                   pdf_done, error, result>>
    /\ UNCHANGED <<scoreVars, prevVars, yesVars, periodVars>>

\* mkdir raises: the parent cannot be created.
MkdirFails ==
    /\ pc = "mkdir"
    /\ Fail("OSError", <<>>)
    /\ UNCHANGED <<input_dir, generate_pdfs, json_files, records, questions, out_dir,
                   workbook, pdfs, pdf_done, result>>
    /\ UNCHANGED <<scoreVars, prevVars, yesVars, periodVars>>

WriteWorkbookInPlace ==
    /\ pc = "write"
    /\ workbook' = write_workbook(records, questions)
    /\ records' = [k \in 1..Len(records) |->
                      [path |-> records[k].path,
                       record |-> normalized_record(records[k].record)]]
    /\ pc' = IF generate_pdfs THEN "reports" ELSE "return"
    /\ UNCHANGED <<input_dir, generate_pdfs, json_files, questions, out_dir, pdfs,
                   pdf_done, error, result>>
    /\ UNCHANGED <<scoreVars, prevVars, yesVars, periodVars>>

WriteWorkbookThenReports ==
    /\ pc = "write"
    /\ workbook' = write_workbook(records, questions)
    /\ pc' = "reports"
    /\ UNCHANGED <<input_dir, generate_pdfs, json_files, records, questions, out_dir, pdfs,
                   pdf_done, error, result>>
    /\ UNCHANGED <<scoreVars, prevVars, yesVars, periodVars>>

\* write_workbook(records, questions, output_path), wb.save included.
WriteWorkbook ==
    /\ pc = "write"
    /\ workbook' = write_workbook(records, questions)
    /\ pc' = IF generate_pdfs THEN "reports" ELSE "return"
    /\ UNCHANGED <<input_dir, generate_pdfs, json_files, records, questions, out_dir, pdfs,
                   pdf_done, error, result>>
    /\ UNCHANGED <<scoreVars, prevVars, yesVars, periodVars>>

\* wb.save raises: the file cannot be written.
WriteWorkbookFails ==
    /\ pc = "write"
    /\ Fail("OSError", <<>>)
    /\ UNCHANGED <<input_dir, generate_pdfs, json_files, records, questions, out_dir,
                   workbook, pdfs, pdf_done, result>>
    /\ UNCHANGED <<scoreVars, prevVars, yesVars, periodVars>>

\* generate_score_reports: one turn of the loop over records.
GenerateScoreReport ==
    /\ pc = "reports"
    /\ LET loaded == records[pdf_done + 1]
       IN  pdfs' = write_file(pdfs, score_report(loaded.path, loaded.record))
    /\ pdf_done' = pdf_done + 1
    /\ pc' = IF pdf_done' = Len(records) THEN "return" ELSE "reports"
    /\ UNCHANGED <<input_dir, generate_pdfs, json_files, records, questions, out_dir,
                   workbook, error, result>>
    /\ UNCHANGED <<scoreVars, prevVars, yesVars, periodVars>>

\* pdf.output raises: the report cannot be written.
GenerateScoreReportFails ==
    /\ pc = "reports"
    /\ Fail("OSError", records[pdf_done + 1].path)
    /\ UNCHANGED <<input_dir, generate_pdfs, json_files, records, questions, out_dir,
                   workbook, pdfs, pdf_done, result>>
    /\ UNCHANGED <<scoreVars, prevVars, yesVars, periodVars>>

\* return len(records)
Return ==
    /\ pc = "return"
    /\ result' = Len(records)
    /\ pc' = "done"
    /\ UNCHANGED <<input_dir, generate_pdfs, json_files, records, questions, out_dir,
                   workbook, pdfs, pdf_done, error>>
    /\ UNCHANGED <<scoreVars, prevVars, yesVars, periodVars>>

Init ==
    /\ \E choice \in [1..MaxFiles -> FILE_CHOICES] :
          input_dir = { [path |-> Path(FILE_STEMS[i], choice[i].suffix),
                         content |-> choice[i].content] :
                        i \in {j \in 1..MaxFiles : choice[j].suffix # <<>>} }
    /\ generate_pdfs \in BOOLEAN
    /\ pc = "start"
    /\ json_files = <<>>
    /\ records = <<>>
    /\ questions = <<>>
    /\ out_dir = FALSE
    /\ workbook = NO_FILE
    /\ pdfs = {}
    /\ pdf_done = 0
    /\ error = NO_ERROR
    /\ result = 0
    /\ IdleScore
    /\ IdlePrev
    /\ IdleYes
    /\ IdlePeriod

Next ==
    \/ Glob
    \/ LoadFile
    \/ DetermineColumns
    \/ Mkdir
    \/ MkdirFails
    \/ WriteWorkbook
    \/ WriteWorkbookFails
    \/ GenerateScoreReport
    \/ GenerateScoreReportFails
    \/ Return

Spec == Init /\ [][Next]_vars

\* ------------------------------------------ scoring before and after a change

MaxChanges == 2

\* Filled rows appended between two calls.
FILLED_ROWS == {RowTopic, RowSpecialist, JNum(1)}

\* The record is changed and scored again; the earlier result is kept.
Rescore(op, record) ==
    /\ edits < MaxChanges
    /\ rec' = record
    /\ edits' = edits + 1
    /\ last_op' = op
    /\ prev_components' = components
    /\ prev_total' = total
    /\ components' = compute_point_components(record)
    /\ total' = compute_points(record)
    /\ UNCHANGED <<called, yesVars, runVars, periodVars>>

AppendFilledRow ==
    \E key \in LIST_KEYS, row \in FILLED_ROWS :
        /\ key \notin dict_keys(rec) \/ get(rec, key).t = "list"
        /\ Rescore("append", append_row(rec, key, row))

PutUnreadKey ==
    \E key \in UNREAD_KEYS, value \in UNREAD_VALUES :
        /\ get(rec, key) # value
        /\ Rescore("put", dict_set(rec, key, value))

RemoveUnreadKey ==
    \E key \in UNREAD_KEYS \cap dict_keys(rec) : Rescore("remove", dict_del(rec, key))

ReorderUnreadKey ==
    \E i \in 1..(Len(rec) - 1) :
        /\ rec[i].k \in UNREAD_KEYS \/ rec[i + 1].k \in UNREAD_KEYS
        /\ Rescore("reorder", swap_keys(rec, i))

InitRescore ==
    /\ rec \in BASE_RECORDS
    /\ edits = 0
    /\ called = TRUE
    /\ components = compute_point_components(rec)
    /\ total = compute_points(rec)
    /\ last_op = "none"
    /\ prev_components = components
    /\ prev_total = total
    /\ IdleYes
    /\ IdlePeriod
    /\ IdleRun

NextRescore == AppendFilledRow \/ PutUnreadKey \/ RemoveUnreadKey \/ ReorderUnreadKey

SpecRescore == InitRescore /\ [][NextRescore]_vars

\* -------------------------------------------------- the is_yes specification

\* is_yes(record.get(key)) for a record holding the argument, or nothing.
IsYes ==
    /\ ~yes_done
    /\ LET record == IF yes_arg = Missing THEN <<>>
                     ELSE <<KV("manages_group_chat", yes_arg)>>
       IN yes_ret' = is_yes(get(record, "manages_group_chat"))
    /\ yes_done' = TRUE
    /\ UNCHANGED <<yes_arg, scoreVars, prevVars, runVars, periodVars>>

InitYes ==
    /\ yes_arg \in YES_INPUTS
    /\ yes_done = FALSE
    /\ yes_ret = FALSE
    /\ IdleScore
    /\ IdlePrev
    /\ IdlePeriod
    /\ IdleRun

NextYes == IsYes

SpecYes == InitYes /\ [][NextYes]_vars

\* ------------------------------------- the reporting-period specification

MaxRangeTokens == 4

\* The pieces a legacy range is made of: a date, the separator, its parts.
RANGE_TOKENS == {<<"1">>, <<" ", "-", " ">>, <<" ">>, <<"-">>}

RECURSIVE concat(_)
concat(pieces) == IF pieces = <<>> THEN <<>> ELSE Head(pieces) \o concat(Tail(pieces))

\* The range strings of up to n pieces.
RangeStrings(n) == UNION {{concat(pieces) : pieces \in [1..m -> RANGE_TOKENS]} : m \in 0..n}

\* What an explicit date may be: absent (Missing), null, a string, a number.
EXPLICIT_DATES == {Missing, JNull, JStr(<<>>), JStr(<<"2">>), JNum(3)}

\* What the range may be: absent, null, a number, a list, an object, a string.
RANGES ==
    {Missing, JNull, JNum(1), JList(<<JStr(<<"1", " ", "-", " ", "2">>)>>),
     JObj(<<KV("date_start", JStr(<<"1">>))>>)}
    \cup {JStr(r) : r \in RangeStrings(MaxRangeTokens)}

\* The dict with the given pairs, without those whose value is absent.
dict_of(pairs) == SelectSeq(pairs, LAMBDA p : p.v # Missing)

\* Values under reporting_period: objects with or without explicit dates and
\* a range, and values that are not objects.
PERIOD_INPUTS ==
    { JObj(dict_of(<<KV("range", r), KV("date_start", ds), KV("date_end", de)>>)) :
        r \in RANGES, ds \in EXPLICIT_DATES, de \in EXPLICIT_DATES }
    \cup {JNull, JStr(<<"1", " ", "-", " ", "2">>), JNum(1), JBool(TRUE),
          JList(<<JStr(<<"1">>), JStr(<<"2">>)>>)}

\* normalize_reporting_period(value) of the raw value.
NormalizePeriod ==
    /\ period_calls = 0
    /\ period_ret' = normalize_reporting_period(period_arg)
    /\ period_calls' = 1
    /\ UNCHANGED <<period_arg, period_prev, scoreVars, prevVars, yesVars, runVars>>

\* normalize_reporting_period applied to its own result.
NormalizePeriodAgain ==
    /\ period_calls = 1
    /\ period_prev' = period_ret
    /\ period_ret' = normalize_reporting_period(period_ret)
    /\ period_calls' = 2
    /\ UNCHANGED <<period_arg, scoreVars, prevVars, yesVars, runVars>>

InitPeriod ==
    /\ period_arg \in PERIOD_INPUTS
    /\ period_calls = 0
    /\ period_ret = JNull
    /\ period_prev = JNull
    /\ IdleScore
    /\ IdlePrev
    /\ IdleYes
    /\ IdleRun

NextPeriod == NormalizePeriod \/ NormalizePeriodAgain

SpecPeriod == InitPeriod /\ [][NextPeriod]_vars

\* ------------------------------------------------- the claims on the scoring

\* The labels of the eleven components, in order.
COMPONENT_LABELS ==
    << "base (11, 12, 13, 14, 16, 17, 18, 19)", "personal programs (20)",
       "scientific publication (22)", "media materials (23)", "mentoring (21)",
       "student prizes (15)", "qualification courses (24)",
       "invited specialists (12)", "curator hours over three (12)",
       "joint events over two (17)", "curator events over two (19)" >>

Max(a, b) == IF a >= b THEN a ELSE b

\* A list item that counts as filled: an object with at least one truthy
\* value, or a truthy scalar.
FilledItem(item) ==
    \/ item.t = "obj" /\ {p \in {item.f[i] : i \in 1..Len(item.f)} : py_bool(p.v)} # {}
    \/ item.t \in {"str", "num", "bool", "null"} /\ py_bool(item)

\* The number of filled items of a list; 0 for what is not a list.
Filled(record, key) ==
    LET value == get(record, key) IN
    IF value.t = "list"
    THEN Cardinality({i \in 1..Len(value.items) : FilledItem(value.items[i])})
    ELSE 0

\* An object item whose specialists field is a non-blank string or a list with
\* at least one truthy entry.
SpecialistItem(item) ==
    /\ item.t = "obj"
    /\ \E i \in 1..Len(item.f) :
          /\ item.f[i].k = "specialists"
          /\ LET sp == item.f[i].v IN
             \/ sp.t = "str" /\ \E j \in 1..Len(sp.s) : sp.s[j] \notin Whitespace
             \/ sp.t = "list" /\ \E j \in 1..Len(sp.items) : py_bool(sp.items[j])

WithSpecialists(record, key) ==
    LET value == get(record, key) IN
    IF value.t = "list"
    THEN Cardinality({i \in 1..Len(value.items) : SpecialistItem(value.items[i])})
    ELSE 0

\* The boolean true, or a string that is the token in any case between
\* whitespace.
Affirmative(value) ==
    \/ value = JBool(TRUE)
    \/ /\ value.t = "str"
       /\ \E i \in 1..Len(value.s) :
             /\ i < Len(value.s)
             /\ value.s[i] \in {"cyr_d", "cyr_D"}
             /\ value.s[i + 1] \in {"cyr_a", "cyr_A"}
             /\ \A j \in 1..Len(value.s) : j \notin {i, i + 1} => value.s[j] \in Whitespace

\* The eight base conditions of a record, numbered.
BaseCondition(record, c) ==
    CASE c = 1 -> Affirmative(get(record, "held_minimum_three_curator_sessions_in_reporting_period"))
      [] c = 2 -> Filled(record, "curator_hours_details") >= 3
      [] c = 3 -> Affirmative(get(record, "manages_group_chat"))
      [] c = 4 -> Affirmative(get(record, "inform_group_about_events"))
      [] c = 5 -> Affirmative(get(record, "participated_in_two_events_with_group"))
      [] c = 6 -> Filled(record, "joint_participation_events") >= 2
      [] c = 7 -> Affirmative(get(record, "participated_in_two_curator_events"))
      [] c = 8 -> Filled(record, "curator_personal_events") >= 2

BaseConditionsHeld(record) == Cardinality({c \in 1..8 : BaseCondition(record, c)})

Points(comps) == [i \in 1..Len(comps) |-> comps[i].points]

\* C1: compute_point_components returns exactly eleven (label, integer)
\* components in the fixed order, every value is >= 0, and compute_points
\* returns the sum of the eleven values, so the total is >= 0.
C1_ElevenNonNegativeSummingToTotal ==
    called =>
        /\ Len(components) = 11
        /\ [i \in 1..Len(components) |-> components[i].label] = COMPONENT_LABELS
        /\ \A i \in 1..Len(components) : components[i].points \in Nat
        /\ total = components[1].points + components[2].points + components[3].points
                   + components[4].points + components[5].points + components[6].points
                   + components[7].points + components[8].points + components[9].points
                   + components[10].points + components[11].points
        /\ total >= 0

C1_Witness ==
    /\ called
    /\ components # <<>>
    /\ components[1].points = 30
    /\ \E i \in 2..11 : components[i].points > 0
    /\ total > 30

\* C2: the first component is 30 if and only if all eight base conditions
\* hold together; otherwise, also when exactly seven hold, it is 0; it takes
\* no other value.
C2_BaseAllOrNothing ==
    called =>
        /\ components[1].points \in {0, 30}
        /\ components[1].points = 30 <=> BaseConditionsHeld(rec) = 8
        /\ BaseConditionsHeld(rec) = 7 => components[1].points = 0

C2_Witness ==
    /\ called
    /\ BaseConditionsHeld(rec) = 7
    /\ ~BaseCondition(rec, 8)
    /\ components[1].points = 0

\* C3: components 2 to 11 are 10 x filled(q20), 20 x filled(q22),
\* 10 x filled(q23), 10 x filled(q21), 10 x filled(q15), 20 x filled(q24),
\* 20 x rows-with-specialists(q12), 5 x max(filled(q12) - 3, 0),
\* 10 x max(filled(q17) - 2, 0), 5 x max(filled(q19) - 2, 0); the example
\* record yields [30, 0, 0, 0, 0, 0, 0, 20, 0, 0, 0] and total 50.
C3_ComponentFormula ==
    called =>
        /\ SubSeq(Points(components), 2, 11) =
              << 10 * Filled(rec, "personal_program_participation"),
                 20 * Filled(rec, "scientific_publications"),
                 10 * Filled(rec, "media_materials"),
                 10 * Filled(rec, "mentor_support_events"),
                 10 * Filled(rec, "achievements"),
                 20 * Filled(rec, "qualification_courses"),
                 20 * WithSpecialists(rec, "curator_hours_details"),
                 5 * Max(Filled(rec, "curator_hours_details") - 3, 0),
                 10 * Max(Filled(rec, "joint_participation_events") - 2, 0),
                 5 * Max(Filled(rec, "curator_personal_events") - 2, 0) >>
        /\ rec = ExampleRecord =>
              /\ Points(components) = <<30, 0, 0, 0, 0, 0, 0, 20, 0, 0, 0>>
              /\ total = 50

C3_Witness ==
    /\ called
    /\ rec = ExampleRecord
    /\ total = 50

\* C4: appending one filled row to the list of a list-scored question never
\* decreases the total; adding, removing or reordering keys the scoring does
\* not read changes no component and not the total.
C4_MonotonicAndFrame ==
    /\ last_op = "append" => total >= prev_total
    /\ last_op \in {"put", "remove", "reorder"} =>
          components = prev_components /\ total = prev_total

C4_Witness ==
    /\ last_op = "append"
    /\ prev_total = 50
    /\ total = 55
    /\ dict_keys(rec) \cap UNREAD_KEYS # {}

\* C5: is_yes is true exactly for the boolean true and for a string that
\* trimmed and lowercased is the affirmative token; false for every other
\* string, every number (1 too), null, a missing key, lists and objects.
C5_IsYesExactly ==
    yes_done =>
        /\ yes_ret <=> (yes_arg # Missing /\ Affirmative(yes_arg))
        /\ yes_arg.t \in {"num", "null", "missing", "list", "obj"} => ~yes_ret
        /\ yes_arg = JNum(1) => ~yes_ret

C5_Witness ==
    /\ yes_done
    /\ yes_ret
    /\ yes_arg = JStr(<<" ", "cyr_D", "cyr_a">>)

\* -------------------------------------------------- the claims on the run

JsonFiles == {file \in input_dir : file.path.suffix = JSON_SUFFIX}

\* The files whose names sort before the name of file.
Before(file) == {g \in JsonFiles : str_lt(path_name(g.path), path_name(file.path))}

\* Nothing of the run's output exists.
NothingWritten == ~out_dir /\ ~workbook.exists /\ workbook.rows = <<>> /\ pdfs = {}

\* C6: with zero .json files in the input directory the run fails with the
\* no-records error, before the output directory is created and before any
\* spreadsheet or PDF is written.
C6_NoRecordsFound ==
    JsonFiles = {} =>
        /\ pc \in {"start", "failed"}
        /\ pc = "failed" => error.kind = "FileNotFoundError"
        /\ NothingWritten

C6_Witness ==
    /\ pc = "failed"
    /\ input_dir # {}
    /\ JsonFiles = {}
    /\ error.kind = "FileNotFoundError"

\* C7: a file whose top-level JSON value is not an object, after any number of
\* valid files in name order, aborts the run with the invalid-shape error
\* naming that file; no record is rendered and no output directory,
\* spreadsheet or PDF is created.
C7_InvalidRecordShape ==
    \A file \in JsonFiles :
        (/\ file.content.t \notin {"obj", "unparsable"}
         /\ \A g \in Before(file) : g.content.t = "obj")
        => /\ pc \in {"start", "load", "failed"}
           /\ pc = "failed" => error = Raise("ValueError", file.path)
           /\ NothingWritten

C7_Witness ==
    /\ pc = "failed"
    /\ error.kind = "ValueError"
    /\ Len(records) = 2
    /\ \E file \in JsonFiles : file.path = error.path /\ file.content.t = "list"

ReportExists(i) == \E f \in pdfs : f.name = pdf_name(records[i].path, records[i].record)

\* C8 as claimed: in every terminal state either the run succeeded and the
\* spreadsheet and, when requested, all PDFs exist, or it reported an error
\* and neither the spreadsheet nor a PDF of this run exists.
C8_AllOrNothing ==
    /\ pc = "done" =>
          /\ workbook.exists
          /\ generate_pdfs => \A i \in 1..Len(records) : ReportExists(i)
    /\ pc = "failed" => ~workbook.exists /\ pdfs = {}

\* C8 as amended: a run that succeeds leaves the spreadsheet and, when
\* requested, a report for every record; an error raised while loading leaves
\* no output directory, spreadsheet or PDF; an error of a later stage leaves
\* what the earlier stages wrote: the directory after mkdir, the spreadsheet
\* and the reports of the records before the failing one.
C8_StagesLeaveTheirOutput ==
    /\ pc = "done" =>
          /\ error = NO_ERROR
          /\ out_dir /\ workbook.exists
          /\ generate_pdfs => \A i \in 1..Len(records) : ReportExists(i)
    /\ pc = "failed" =>
          /\ error.kind \in {"FileNotFoundError", "JSONDecodeError", "ValueError", "OSError"}
          /\ error.kind # "OSError" => NothingWritten
          /\ ~workbook.exists => pdfs = {}
          /\ workbook.exists =>
                /\ out_dir /\ generate_pdfs
                /\ pdf_done < Len(records)
                /\ \A i \in 1..pdf_done : ReportExists(i)
                /\ Cardinality(pdfs) <= pdf_done

C8_Witness ==
    /\ pc = "failed"
    /\ workbook.exists
    /\ pdf_done >= 1
    /\ pdfs # {}

RegistryIndex(key) == CHOOSE q \in 1..Len(QUESTION_ORDER) : QUESTION_ORDER[q].key = key

RegistryKeys == {QUESTION_ORDER[q].key : q \in 1..Len(QUESTION_ORDER)}

LoadedKeys ==
    UNION { {records[i].record[j].k : j \in 1..Len(records[i].record)} : i \in 1..Len(records) }

PlannedKeys == {questions[c].key : c \in 1..Len(questions)}

\* The number of flat columns of the planned questions before question c.
RECURSIVE ColumnsBefore(_)
ColumnsBefore(c) ==
    IF c = 1 THEN 0
    ELSE ColumnsBefore(c - 1) + Max(1, Len(questions[c - 1].subfields))

\* The flat columns under planned question c are its sub-fields in declared
\* order, or one column without sub-key.
FlatColumnsOf(c) ==
    LET declared == QUESTION_ORDER[RegistryIndex(questions[c].key)].subfields
        first == ColumnsBefore(c)
    IN  IF declared = <<>>
        THEN workbook.flat_columns[first + 1] = FlatColumn(questions[c].key, "")
        ELSE \A i \in 1..Len(declared) :
                workbook.flat_columns[first + i] = FlatColumn(questions[c].key, declared[i])

\* One record holding every key of a set.
RECURSIVE RecordOfKeys(_)
RecordOfKeys(keys) ==
    IF keys = {} THEN <<>>
    ELSE LET key == CHOOSE k \in keys : TRUE
         IN  <<KV(key, JNull)>> \o RecordOfKeys(keys \ {key})

\* C9: the plan holds a registry question iff its key occurs in a loaded
\* record or it is always-include; planned questions are in registry order and
\* expand into their sub-fields in declared order or into one flat column; so
\* the plan is the same for any order of the records and for any records with
\* the same union of keys, and a key outside the registry makes no column.
C9_ColumnPlan ==
    questions # <<>> =>
        /\ \A q \in 1..Len(QUESTION_ORDER) :
              QUESTION_ORDER[q].key \in PlannedKeys
                  <=> (QUESTION_ORDER[q].key \in LoadedKeys \/ QUESTION_ORDER[q].always)
        /\ PlannedKeys \subseteq RegistryKeys
        /\ \A c \in 1..Len(questions), d \in 1..Len(questions) :
              c < d => RegistryIndex(questions[c].key) < RegistryIndex(questions[d].key)
        /\ \A i \in 1..(Len(records) - 1) :
              determine_columns(swap_keys(records, i)) = questions
        /\ determine_columns(<<[path |-> Path(<<>>, JSON_SUFFIX),
                                record |-> RecordOfKeys(LoadedKeys)]>>) = questions
        /\ workbook.exists =>
              /\ Len(workbook.flat_columns) = ColumnsBefore(Len(questions) + 1)
              /\ \A c \in 1..Len(questions) : FlatColumnsOf(c)
              /\ \A i \in 1..Len(workbook.flat_columns) :
                    workbook.flat_columns[i].key \in RegistryKeys

C9_Witness ==
    /\ workbook.exists
    /\ Len(records) >= 2
    /\ "unknown_key" \in LoadedKeys
    /\ "unknown_key" \notin PlannedKeys
    /\ "curator_hours_details" \in PlannedKeys
    /\ "email" \notin PlannedKeys

\* The rows of the body where a block starts: the source cell holds a name.
BlockStarts == {i \in 1..Len(workbook.rows) : workbook.rows[i].source # <<>>}

\* The row where block k starts; the row after the body for k past the last.
BlockStart(k) ==
    IF k > Cardinality(BlockStarts) THEN Len(workbook.rows) + 1
    ELSE CHOOSE i \in BlockStarts : Cardinality({j \in BlockStarts : j < i}) = k - 1

\* The lengths of the lists among a record's normalized values: a list under
\* any key but score (an integer) and reporting_period (an object), unless all
\* its items are scalars (a single string).
ListLengths(raw_record) ==
    { Len(raw_record[j].v.items) :
        j \in { h \in 1..Len(raw_record) :
                  /\ raw_record[h].k \notin {"score", "reporting_period"}
                  /\ raw_record[h].v.t = "list"
                  /\ \E x \in 1..Len(raw_record[h].v.items) :
                        raw_record[h].v.items[x].t \in {"obj", "list"} } }

ExpectedHeight(raw_record) ==
    LET lengths == ListLengths(raw_record) \cup {1}
    IN  CHOOSE m \in lengths : \A n \in lengths : n <= m

\* C10: the body is one contiguous block per loaded record, in name-sorted
\* file order, and a block's height is max(1, the greatest length of a list
\* among the record's normalized values), keys without a column included.
C10_BlocksAndHeights ==
    workbook.exists =>
        /\ Cardinality(BlockStarts) = Len(records)
        /\ Len(records) = Cardinality(JsonFiles)
        /\ BlockStart(1) = 1
        /\ \A k \in 1..Len(records) :
              /\ \E file \in JsonFiles :
                    /\ Cardinality(Before(file)) = k - 1
                    /\ workbook.rows[BlockStart(k)].source = path_name(file.path)
                    /\ BlockStart(k + 1) - BlockStart(k) = ExpectedHeight(file.content.f)
              /\ \A i \in (BlockStart(k) + 1)..(BlockStart(k + 1) - 1) :
                    workbook.rows[i].source = <<>>

C10_Witness ==
    /\ workbook.exists
    /\ Len(records) >= 2
    /\ records[2].record = RecordB
    /\ BlockStart(3) - BlockStart(2) = 2
    /\ records[1].record = RecordA
    /\ BlockStart(2) = 4

\* ------------------------------------------------ the claims on the cells

\* The raw record of block k: the content of the k-th file in name order.
RawOfBlock(k) == (CHOOSE file \in JsonFiles : Cardinality(Before(file)) = k - 1).content.f

\* The answer under key is rendered as a list of rows: a list with an item
\* that is an object or a list, under a key other than score and
\* reporting_period.
ExpandableList(raw_record, key) ==
    /\ key \notin {"score", "reporting_period"}
    /\ \E j \in 1..Len(raw_record) :
          /\ raw_record[j].k = key
          /\ raw_record[j].v.t = "list"
          /\ \E x \in 1..Len(raw_record[j].v.items) :
                raw_record[j].v.items[x].t \in {"obj", "list"}

\* The number of items of the list under key.
ItemCount(raw_record, key) == Len(get(raw_record, key).items)

\* The cells with the fill on a body row are exactly those (the source column
\* is sheet column 1) under the flat columns of a question whose answer in the
\* row's record is an expandable list, when the row is among the first
\* Count(record, key) rows of the record's block.
HighlightedFirstRows(Count(_, _)) ==
    workbook.exists =>
        \A k \in 1..Len(records) :
            LET first == BlockStart(k)
                raw_record == RawOfBlock(k)
                expandable == {c \in 1..Len(workbook.flat_columns) :
                                  ExpandableList(raw_record, workbook.flat_columns[c].key)}
            IN  \A i \in first..(BlockStart(k + 1) - 1) :
                    workbook.rows[i].fill =
                        {c + 1 : c \in {d \in expandable :
                                           i - first < Count(raw_record,
                                                             workbook.flat_columns[d].key)}}

\* C11 as claimed: a planned list-valued question with n filled rows has the
\* fill on exactly the first n rows of the record's block, in exactly the
\* flat columns of the question, and nowhere else.
C11_HighlightFilledRows == HighlightedFirstRows(Filled)

\* C11 as amended: a planned list-valued question whose list has n items,
\* filled or empty, has the fill on exactly the first n rows of the record's
\* block, in exactly the flat columns of the question; no other row of the
\* block, no row of another block and no column of another question has the
\* fill on its account.
C11_HighlightListRows == HighlightedFirstRows(ItemCount)

C11_Witness ==
    /\ workbook.exists
    /\ Len(records) = 3
    /\ records[2].record = RecordE
    /\ records[3].record = RecordA
    /\ Cardinality(workbook.rows[BlockStart(2) + 1].fill) = 7
    /\ Cardinality(workbook.rows[BlockStart(2) + 2].fill) = 6
    /\ workbook.rows[BlockStart(3) + 2].fill # {}
    /\ workbook.rows[BlockStart(1)].fill = {}

\* The total of section 4.5, from the counts stated on their own.
ExpectedTotal(record) ==
    (IF BaseConditionsHeld(record) = 8 THEN 30 ELSE 0)
    + 10 * Filled(record, "personal_program_participation")
    + 20 * Filled(record, "scientific_publications")
    + 10 * Filled(record, "media_materials")
    + 10 * Filled(record, "mentor_support_events")
    + 10 * Filled(record, "achievements")
    + 20 * Filled(record, "qualification_courses")
    + 20 * WithSpecialists(record, "curator_hours_details")
    + 5 * Max(0, Filled(record, "curator_hours_details") - 3)
    + 10 * Max(0, Filled(record, "joint_participation_events") - 2)
    + 5 * Max(0, Filled(record, "curator_personal_events") - 2)

Scalar(value) == value.t \in {"null", "bool", "num", "str"}

\* The normalized value under a key: the injected total under score, Missing
\* for an absent key, the two dates under reporting_period, a single string
\* for a list of scalars, the raw value otherwise.
NormalValue(raw_record, key) ==
    IF key = "score" THEN JNum(ExpectedTotal(raw_record))
    ELSE IF \A j \in 1..Len(raw_record) : raw_record[j].k # key THEN Missing
    ELSE LET value == raw_record[CHOOSE j \in 1..Len(raw_record) : raw_record[j].k = key].v
         IN  IF key = "reporting_period" THEN normalize_reporting_period(value)
             ELSE IF value.t = "list" /\ \A x \in 1..Len(value.items) : Scalar(value.items[x])
                  THEN JStr(format_scalar_list(value.items))
                  ELSE value

\* The cell shows nothing.
Nothing(cell) == cell \in {JNull, JStr(<<>>)}

\* The cell shows a value: a scalar as itself (null as nothing), a list of
\* scalars as one string, an object or another list as its JSON text.
ShownAs(cell, value) ==
    CASE value.t = "null" -> Nothing(cell)
      [] value.t \in {"bool", "num", "str"} -> cell = value
      [] value.t = "obj" ->
            cell.t = "str" /\ Head(cell.s) = "{" /\ cell.s[Len(cell.s)] = "}"
      [] value.t = "list" ->
            /\ cell.t = "str"
            /\ IF \A x \in 1..Len(value.items) : Scalar(value.items[x])
               THEN cell.s = format_scalar_list(value.items)
               ELSE Head(cell.s) = "[" /\ cell.s[Len(cell.s)] = "]"

\* The rule as stated, for the cell at an offset of a block under a flat
\* column with the given sub-key ("" for none), value being the normalized
\* value of the column's question.
StatedRule(cell, value, offset, subkey) ==
    CASE value = Missing -> Nothing(cell)
      [] value.t = "list" ->
            IF offset < Len(value.items)
            THEN LET item == value.items[offset + 1]
                 IN  /\ item.t = "obj" /\ subkey # "" => ShownAs(cell, get(item.f, subkey))
                     /\ Scalar(item) => ShownAs(cell, item)
            ELSE Nothing(cell)
      [] value.t = "obj" ->
            subkey # "" => IF offset = 0 THEN ShownAs(cell, get(value.f, subkey))
                           ELSE Nothing(cell)
      [] OTHER -> IF offset = 0 THEN ShownAs(cell, value) ELSE Nothing(cell)

\* The rule with the column's sub-key taken into account in every case.
RuleBySubKey(cell, value, offset, subkey) ==
    CASE value = Missing -> Nothing(cell)
      [] value.t = "list" ->
            IF offset < Len(value.items)
            THEN LET item == value.items[offset + 1]
                 IN  IF subkey = "" THEN ShownAs(cell, item)
                     ELSE IF item.t = "obj" THEN ShownAs(cell, get(item.f, subkey))
                     ELSE Nothing(cell)
            ELSE Nothing(cell)
      [] value.t = "obj" ->
            IF offset # 0 THEN Nothing(cell)
            ELSE IF subkey = "" THEN ShownAs(cell, value)
            ELSE ShownAs(cell, get(value.f, subkey))
      [] OTHER -> IF offset = 0 /\ subkey = "" THEN ShownAs(cell, value) ELSE Nothing(cell)

\* Every cell of every block under every flat column follows the rule.
CellsFollow(Rule(_, _, _, _)) ==
    workbook.exists =>
        \A k \in 1..Len(records) :
            LET first == BlockStart(k)
                raw_record == RawOfBlock(k)
            IN  \A c \in 1..Len(workbook.flat_columns) :
                    LET value == NormalValue(raw_record, workbook.flat_columns[c].key)
                        subkey == workbook.flat_columns[c].subkey
                    IN  \A i \in first..(BlockStart(k + 1) - 1) :
                            /\ Len(workbook.rows[i].values) = Len(workbook.flat_columns)
                            /\ Rule(workbook.rows[i].values[c], value, i - first, subkey)

C13_PeriodIdempotent ==
    /\ period_calls >= 1 =>
          /\ period_ret.t = "obj"
          /\ Len(period_ret.f) = 2
          /\ {period_ret.f[1].k, period_ret.f[2].k} = {"date_start", "date_end"}
          /\ period_ret.f[1].k # period_ret.f[2].k
    /\ period_calls = 2 => period_ret = period_prev

C13_Witness ==
    /\ period_calls = 2
    /\ period_arg = JObj(<<KV("range", JStr(<<"1", " ", "-", " ", "1">>))>>)
    /\ period_ret = JObj(<<KV("date_start", JStr(<<"1">>)), KV("date_end", JStr(<<"1">>))>>)

\* The separator " - " stands at position p of a string.
SeparatorAt(r, p) == p + 2 <= Len(r) /\ r[p] = " " /\ r[p + 1] = "-" /\ r[p + 2] = " "

\* The object holds a value under key that is not null.
Explicit(object, key) ==
    \E j \in 1..Len(object.f) : object.f[j].k = key /\ object.f[j].v # JNull

\* The value under a key of an object, null when there is none.
Field(object, key) ==
    IF \E j \in 1..Len(object.f) : object.f[j].k = key
    THEN object.f[CHOOSE j \in 1..Len(object.f) : object.f[j].k = key].v
    ELSE JNull

\* C14: for an object without explicit dates, a range string is split at the
\* first " - " into the text before and all the text after it; a range that
\* is missing, not a string, without separator, or with nothing before or
\* after the separator gives two empty dates. With an explicit date_start or
\* date_end both are returned as they are and the range is not used.
C14_LegacyRangeSplit ==
    (period_calls = 1 /\ period_arg.t = "obj") =>
        LET range == Field(period_arg, "range")
            date_start == Field(period_ret, "date_start")
            date_end == Field(period_ret, "date_end")
        IN  IF Explicit(period_arg, "date_start") \/ Explicit(period_arg, "date_end")
            THEN /\ date_start = Field(period_arg, "date_start")
                 /\ date_end = Field(period_arg, "date_end")
            ELSE IF /\ range.t = "str"
                    /\ \E p \in 2..(Len(range.s) - 3) :
                          /\ SeparatorAt(range.s, p)
                          /\ \A h \in 1..(p - 1) : ~SeparatorAt(range.s, h)
                 THEN \E p \in 2..(Len(range.s) - 3) :
                          /\ SeparatorAt(range.s, p)
                          /\ \A h \in 1..(p - 1) : ~SeparatorAt(range.s, h)
                          /\ date_start = JStr(SubSeq(range.s, 1, p - 1))
                          /\ date_end = JStr(SubSeq(range.s, p + 3, Len(range.s)))
                 ELSE date_start = JNull /\ date_end = JNull

C14_Witness ==
    /\ period_calls = 1
    /\ period_arg = JObj(<<KV("range", JStr(<<"1", " ", "-", " ", " ", "-", " ", "1">>))>>)
    /\ Field(period_ret, "date_start") = JStr(<<"1">>)
    /\ Field(period_ret, "date_end") = JStr(<<" ", "-", " ", "1">>)

\* ------------------------------------------------ the claims on the reports

\* The name a record is reported under: its full name, or the stem of its
\* file when it has none.
ReportedName(loaded) ==
    LET full_name == Field(JObj(loaded.record), "full_name")
    IN  IF full_name.t = "str" /\ full_name.s # <<>> THEN full_name.s ELSE loaded.path.stem

\* A report file holds the components and the total of a loaded record.
HoldsScoreOf(file, loaded) ==
    /\ file.full_name = ReportedName(loaded)
    /\ Len(file.components) = 11
    /\ file.total = ExpectedTotal(loaded.record)
    /\ file.total = sum_points(file.components)

\* C15: with PDF generation enabled a successful run over n records leaves
\* exactly n report files, one per record, each holding that record's own
\* components and total, also when records share a full name, when their names
\* are equal after sanitization and when they have no name.
C15_OneReportPerRecord ==
    (pc = "done" /\ generate_pdfs) =>
        /\ Cardinality(pdfs) = Len(records)
        /\ \A i \in 1..Len(records) : \E file \in pdfs : HoldsScoreOf(file, records[i])

\* ------------------------------------------------- the claims on the stages

\* What holds of the stages in every state of a run.
StagesDone ==
    /\ questions # <<>> =>
          /\ Len(records) = Cardinality(JsonFiles)
          /\ \A file \in JsonFiles : file.content.t = "obj"
    /\ workbook.exists => questions # <<>>
    /\ pdf_done > 0 => generate_pdfs /\ workbook.exists
    /\ pdfs # {} => pdf_done > 0
    /\ pc = "done" =>
          /\ result = Len(records)
          /\ result = Cardinality(JsonFiles)
          /\ workbook.exists
          /\ pdf_done = IF generate_pdfs THEN Len(records) ELSE 0

\* What holds of every step of a run: records are loaded in name order and
\* only before the plan; the plan is computed once, before the spreadsheet;
\* the spreadsheet is written once, before any report; the k-th report written
\* is the report of the k-th loaded record.
StagesStep ==
    /\ records' # records =>
          /\ questions = <<>> /\ questions' = <<>>
          /\ \E file \in JsonFiles :
                /\ Cardinality(Before(file)) = Len(records)
                /\ records' = Append(records, [path |-> file.path, record |-> file.content.f])
    /\ questions' # questions => questions = <<>> /\ ~workbook.exists /\ records' = records
    /\ workbook' # workbook =>
          /\ ~workbook.exists /\ workbook'.exists
          /\ pdf_done = 0 /\ pdfs = {} /\ pdfs' = {}
          /\ questions' = questions /\ records' = records
    /\ (pdf_done' # pdf_done \/ pdfs' # pdfs) =>
          /\ generate_pdfs
          /\ workbook.exists /\ workbook' = workbook
          /\ pdf_done' = pdf_done + 1
          /\ pdf_done' <= Len(records)
          /\ \E file \in pdfs' :
                /\ HoldsScoreOf(file, records[pdf_done'])
                /\ pdfs' \ {file} \subseteq pdfs
    /\ result' # result => result' = Len(records) /\ pdf_done' = pdf_done /\ workbook' = workbook

\* C16: all input files are loaded and validated before the column plan is
\* computed, the spreadsheet is written exactly once and before any PDF, PDFs
\* are written only when the option is enabled and in the order of the loaded
\* records, and the count returned on success is the number of loaded records.
C16_StagesInOrder == [](StagesDone) /\ [][StagesStep]_vars

C16_Witness ==
    /\ pc = "done"
    /\ generate_pdfs
    /\ result = 3
    /\ Cardinality(pdfs) = 3
    /\ workbook.exists

\* ------------------------------------------- the claims on lists of scalars

\* A list whose items are all neither objects nor lists, the empty list too.
ScalarList(value) == value.t = "list" /\ \A x \in 1..Len(value.items) : Scalar(value.items[x])

Rank(c) == CHOOSE r \in 1..Len(CODE_POINT_ORDER) : CODE_POINT_ORDER[r] = c

\* a sorts before b: a is a proper prefix of b, or at the first position
\* where they differ a has the character of lower code point.
LexLess(a, b) ==
    \E i \in 1..(Len(a) + 1) :
        /\ \A j \in 1..(i - 1) : j <= Len(b) /\ a[j] = b[j]
        /\ \/ i = Len(a) + 1 /\ Len(b) >= i
           \/ i <= Len(a) /\ i <= Len(b) /\ Rank(a[i]) < Rank(b[i])

\* Where text i starts in the texts joined with a two-character separator.
RECURSIVE Offset(_, _)
Offset(texts, i) == IF i = 1 THEN 0 ELSE Offset(texts, i - 1) + Len(texts[i - 1]) + 2

\* s is the texts joined with ", ".
IsJoined(s, texts) ==
    IF texts = <<>> THEN s = <<>>
    ELSE /\ Len(s) = Offset(texts, Len(texts)) + Len(texts[Len(texts)])
         /\ \A i \in 1..Len(texts) :
               /\ SubSeq(s, Offset(texts, i) + 1, Offset(texts, i) + Len(texts[i])) = texts[i]
               /\ i < Len(texts) =>
                     /\ s[Offset(texts, i) + Len(texts[i]) + 1] = ","
                     /\ s[Offset(texts, i) + Len(texts[i]) + 2] = " "

\* value is the single string a list of scalars collapses to.
IsCollapseOf(value, items) ==
    /\ value.t = "str"
    /\ IsJoined(value.s, SortSeq([x \in 1..Len(items) |-> py_str(items[x])], LexLess))

\* The cells of block k under the flat columns of the question with a key.
CellsOf(k, key) ==
    { <<i, c>> : i \in BlockStart(k)..(BlockStart(k + 1) - 1),
                 c \in {d \in 1..Len(workbook.flat_columns) :
                           workbook.flat_columns[d].key = key} }

\* What holds of the list of scalars at position j of the record of block k;
\* everywhere says whether the statements on the replacement and on the one
\* cell are made for every key and column, or with the period and the
\* columns with a sub-key set apart.
CollapsedAt(k, j, everywhere) ==
    LET raw_record == RawOfBlock(k)
        key == raw_record[j].k
        items == raw_record[j].v.items
        normalized == normalize_record_values(raw_record)[j].v
        shown == {cell \in CellsOf(k, key) :
                     ~Nothing(workbook.rows[cell[1]].values[cell[2]])}
    IN  /\ IF everywhere \/ key # "reporting_period"
           THEN IsCollapseOf(normalized, items)
           ELSE normalized = JObj(<<KV("date_start", JNull), KV("date_end", JNull)>>)
        /\ key \notin {"score", "reporting_period"} =>
              IF /\ items # <<>>
                 /\ \E c \in 1..Len(workbook.flat_columns) :
                       /\ workbook.flat_columns[c].key = key
                       /\ everywhere \/ workbook.flat_columns[c].subkey = ""
              THEN /\ Cardinality(shown) = 1
                   /\ \A cell \in shown :
                         /\ cell[1] = BlockStart(k)
                         /\ IsCollapseOf(workbook.rows[cell[1]].values[cell[2]], items)
              ELSE shown = {}
        /\ \A cell \in CellsOf(k, key) : (cell[2] + 1) \notin workbook.rows[cell[1]].fill

\* What holds of the lists of the records on the sheet: a list of scalars is
\* collapsed, makes no row and has no fill; a list with an object or a list
\* among its items stays the list it was.
ListsCollapse(everywhere) ==
    workbook.exists =>
        \A k \in 1..Len(records) :
            LET raw_record == RawOfBlock(k) IN
            /\ BlockStart(k + 1) - BlockStart(k) = ExpectedHeight(raw_record)
            /\ \A j \in 1..Len(raw_record) :
                  /\ ScalarList(raw_record[j].v) => CollapsedAt(k, j, everywhere)
                  /\ (/\ raw_record[j].v.t = "list"
                      /\ ~ScalarList(raw_record[j].v)
                      /\ everywhere \/ raw_record[j].k # "reporting_period")
                     => normalize_record_values(raw_record)[j].v = raw_record[j].v

ScoreColumn ==
    CHOOSE c \in 1..Len(workbook.flat_columns) : workbook.flat_columns[c].key = "score"

\* The cell of the score column on the first row of block k.
ScoreCell(k) == workbook.rows[BlockStart(k)].values[ScoreColumn]

\* The record without its score key.
WithoutScore(raw_record) == SelectSeq(raw_record, LAMBDA p : p.k # "score")

\* The sheet shows, for every record, the total of the raw record as the file
\* holds it, whatever the file holds under score, and the loaded records are
\* the records of the files.
ScoreShown ==
    workbook.exists =>
        /\ Cardinality({c \in 1..Len(workbook.flat_columns) :
                           workbook.flat_columns[c].key = "score"}) = 1
        /\ \A k \in 1..Len(records) :
              LET raw_record == RawOfBlock(k) IN
              /\ records[k].record = raw_record
              /\ ScoreCell(k) = JNum(compute_points(raw_record))
              /\ ScoreCell(k) = JNum(ExpectedTotal(WithoutScore(raw_record)))
              /\ compute_points(WithoutScore(raw_record)) = compute_points(raw_record)
              /\ \A i \in (BlockStart(k) + 1)..(BlockStart(k + 1) - 1) :
                    Nothing(workbook.rows[i].values[ScoreColumn])

\* Writing the sheet and writing a report leave the loaded records as they
\* are, and the report written for a record holds the total its score cell
\* shows.
ScoreReported ==
    /\ (workbook' # workbook \/ pdf_done' # pdf_done) => records' = records
    /\ pdf_done' # pdf_done =>
          \E file \in pdfs' :
              /\ file.full_name = ReportedName(records[pdf_done'])
              /\ file.name = pdf_name(records[pdf_done'].path, records[pdf_done'].record)
              /\ JNum(file.total) = ScoreCell(pdf_done')
              /\ file.total = sum_points(file.components)
              /\ pdfs' \ {file} \subseteq pdfs

\* C18: the value under score shown in the score column is compute_points of
\* the unmodified raw record and is the total written to the record's report;
\* normalization leaves the raw record as it is and a score key of the input
\* file is overwritten without influence on the result.
C18_ScoreInjected == [](ScoreShown) /\ [][ScoreReported]_vars

C18_Witness ==
    /\ pc = "done"
    /\ generate_pdfs
    /\ \E k \in 1..Len(records) : records[k].record = RecordB /\ ScoreCell(k) = JNum(0)
    /\ \E k \in 1..Len(records) : records[k].record = RecordD /\ ScoreCell(k) = JNum(100)
    /\ \E file \in pdfs : file.total = 100

====
